---- MODULE Spec2Model ----
(***************************************************************************)
(* djot-log: the interval builder parse_log (src/src/lib.rs) and the       *)
(* aggregation methods of Logs, as a state machine.                        *)
(*                                                                         *)
(* A run consumes a finite sequence of classified heading events           *)
(* (LogNode), one per step of the for loop of parse_log, then returns      *)
(* (Logs, errors); the methods of Logs are then called on the result.      *)
(*                                                                         *)
(* Dates are day ordinals (consecutive integers are consecutive calendar   *)
(* days), times are minutes since midnight ("%H:%M" has minute             *)
(* resolution), durations are signed minutes.                              *)
(***************************************************************************)
EXTENDS Integers, Sequences, FiniteSets, Bags, TLC

\* ------------------------------------------------------------------ bounds

\* Longest event sequence fed to parse_log.
MaxEvents == 8

\* Most orphan events (events that are reported in the error list) in a run.
MaxErrors == 2

\* Longest text of a depth-3 heading, in pieces.
MaxTextLen == 6

\* ------------------------------------------------------------- input domains

\* Day ordinals of the DayHeader events (1 = 2023-12-03, 3 = 2023-12-05):
\* two dates with a calendar day between them.
Dates == {1, 3}

\* Times of the TimeHeader events: 09:00, 13:00, 17:00.
Times == {540, 780, 1020}

\* Paths of the KindHeader events, as to_kind_header splits them.
Paths == {<<"Work", "MyOrg">>, <<"Coding">>}

\* Per-day targets handed to accumulated_vs_target: 4h, 8h.
Targets == {240, 480}

\* ------------------------------------------------------------------ Option<T>

None == [some |-> FALSE]

Some(x) == [some |-> TRUE, val |-> x]

\* ------------------------------------------------------------------ LogNode

DayHeader(date) == [type |-> "DayHeader", date |-> date]

TimeHeader(time) == [type |-> "TimeHeader", time |-> time]

KindHeader(path) == [type |-> "KindHeader", path |-> path]

\* No event: the value of `last` before the first iteration of the loop.
NoNode == [type |-> "None"]

\* naive::NaiveDateTime::new(date, time)
NaiveDateTime(date, time) == [date |-> date, time |-> time]

\* NaiveDateTime - NaiveDateTime, a signed chrono::Duration in minutes
\* (a day has 1440 of them).
Minus(a, b) == (a.date - b.date) * 1440 + (a.time - b.time)

\* struct Log { start, end, kinds }
Log(start, end, kinds) == [start |-> start, end |-> end, kinds |-> kinds]

\* Mutant of KindsNew: the pending set is frozen after it was replaced by
\* HashSet::new().
KindsNewAfterReset(paths) == {}

\* Kinds::new: the pending HashSet frozen into the Log; equality of the
\* frozen set is equality of its elements.
KindsNew(paths) == paths

\* format!("Unexpected {:?} without preceding day header", n)
ErrNoDay(node) == [msg |-> "without preceding day header", node |-> node]

\* format!("Unexpected {:?} without start time set", n)
ErrNoStart(node) == [msg |-> "without start time set", node |-> node]

\* --------------------------------------------------------------------- state

VARIABLES
    pc,            \* "loop": inside the for loop of parse_log; "parsed": returned
    n,             \* number of events consumed so far
    last,          \* the event consumed by the latest iteration of the loop
    arm,           \* the match arm of parse_log that handled it
    current_day,   \* Option<NaiveDate>
    start_time,    \* Option<NaiveDateTime>
    errors,        \* Vec<String>
    kinds,         \* HashSet<Vec<String>>, the pending categories
    logs,          \* HashSet<Log>, as a bag: element -> number of stored copies
    days_to_total, \* Option of the BTreeMap total_by_day returned
    target,        \* Option of the argument of accumulated_vs_target
    vs_target,     \* Option of the Vec accumulated_vs_target returned
    printed,       \* the "day: ..." lines the report loop of main printed
    plain_text,    \* Option of the lines to_plain_text returned
    display,       \* Option of the string Display for Kinds wrote
    since_time,    \* history: "no_time" before the first TimeHeader is read, then
                   \* "kind" if a KindHeader was read since the latest TimeHeader,
                   \* "no_kind" if none was
    kind_between,  \* history: a KindHeader was read between two consecutive TimeHeaders
    read_order,    \* history: the paths accepted since the latest accepted TimeHeader
    emitted,       \* history: [start, end, order] of every logs.insert of the loop,
                   \* order being the paths in the order kinds first took them
    prev_end,      \* history: Option of the end of the interval the latest
                   \* accepted TimeHeader emitted
    ignored,       \* history: the events that pushed an error, in order
    clean          \* history: the state of parse_log run on the other events

vars == <<pc, n, last, arm, current_day, start_time, errors, kinds, logs,
          days_to_total, target, vs_target, printed, plain_text, display,
          since_time, kind_between, read_order, emitted, prev_end, ignored, clean>>

\* The variables of the calls made on the returned Logs.
calls == <<days_to_total, target, vs_target, printed, plain_text, display>>

\* The history variables.
hist == <<since_time, kind_between, read_order, emitted, prev_end>>

shadow == <<ignored, clean>>

\* The elements of the HashSet<Log>.
LogSet(ls) == BagToSet(ls)

\* Mutant of HashSetInsert: the collection is a Vec, insert is push.
HashSetPush(ls, l) == ls (+) SetToBag({l})

\* HashSet::insert: a value equal to a stored one is not stored again.
HashSetInsert(ls, l) == IF BagIn(l, ls) THEN ls ELSE ls (+) SetToBag({l})

\* Mutant of KindsInsert: the new path replaces the pending ones.
KindsInsertReplaces(ks, path) == {path}

\* HashSet::insert on the pending categories.
KindsInsert(ks, path) == ks \cup {path}

\* The state of parse_log before any event.
CleanInit ==
    [current_day |-> None, start_time |-> None, errors |-> <<>>, kinds |-> {},
     logs |-> EmptyBag, panicked |-> FALSE]

Init ==
    /\ pc = "loop"
    /\ n = 0
    /\ last = NoNode
    /\ arm = "none"
    /\ current_day = None
    /\ start_time = None
    /\ errors = <<>>
    /\ kinds = {}
    /\ logs = EmptyBag
    /\ days_to_total = None
    /\ target = None
    /\ vs_target = None
    /\ printed = <<>>
    /\ plain_text = None
    /\ display = None
    /\ since_time = "no_time"
    /\ kind_between = FALSE
    /\ read_order = <<>>
    /\ emitted = {}
    /\ prev_end = None
    /\ ignored = <<>>
    /\ clean = CleanInit

\* Mutant of Emit: the test !kinds.is_empty() is missing.
EmitAlways(ls, start, end, ks) == HashSetInsert(ls, Log(start, end, KindsNew(ks)))

\* Mutant of Emit: an interval that ends before it starts is not emitted.
EmitForward(ls, start, end, ks) ==
    IF ks # {} /\ Minus(end, start) >= 0
    THEN HashSetInsert(ls, Log(start, end, KindsNew(ks)))
    ELSE ls

\* The interval a closing TimeHeader emits, or nothing when no category is
\* pending: if !kinds.is_empty() { logs.insert(Log {..}) }
Emit(ls, start, end, ks) ==
    IF ks # {} THEN HashSetInsert(ls, Log(start, end, KindsNew(ks))) ELSE ls

\* Mutant of Reset: the pending categories are kept after an interval was
\* emitted.
ResetNever(ks) == ks

\* The pending categories after a closing TimeHeader: kinds = HashSet::new()
\* inside the same if.
Reset(ks) == IF ks # {} THEN {} ELSE ks

\* Mutant of NextStart: emitting an interval leaves no interval open.
NextStartUnset(start, end, ks) == IF ks # {} THEN None ELSE Some(end)

\* Mutant of NextStart: the start is moved only when an interval was emitted.
NextStartIfEmitted(start, end, ks) == IF ks # {} THEN Some(end) ELSE start

\* The start after a closing TimeHeader: start_time = Some(end), outside
\* the if.
NextStart(start, end, ks) == Some(end)

\* One iteration of the loop of parse_log on the state st: the match on the
\* event and on start_time and current_day.
ParseStep(st, node) ==
    IF st.panicked THEN st
    ELSE IF node.type = "DayHeader"
    THEN [st EXCEPT !.current_day = Some(node.date)]
    ELSE IF node.type = "TimeHeader"
    THEN IF st.start_time = None
         THEN IF st.current_day # None
              THEN [st EXCEPT !.start_time =
                                  Some(NaiveDateTime(st.current_day.val, node.time))]
              ELSE [st EXCEPT !.errors = Append(@, ErrNoDay(node))]
         ELSE IF st.current_day = None
              THEN [st EXCEPT !.panicked = TRUE]
              ELSE LET end == NaiveDateTime(st.current_day.val, node.time) IN
                   [st EXCEPT !.logs = Emit(st.logs, st.start_time.val, end, st.kinds),
                              !.kinds = Reset(st.kinds),
                              !.start_time = NextStart(st.start_time, end, st.kinds)]
    ELSE IF st.start_time # None
         THEN [st EXCEPT !.kinds = KindsInsert(@, node.path)]
         ELSE [st EXCEPT !.errors = Append(@, ErrNoStart(node))]

\* The state st when parse_log returns: the locals current_day, start_time
\* and kinds are dropped.
Returned(st) == [st EXCEPT !.current_day = None, !.start_time = None, !.kinds = {}]

\* History of a step that reads an event: the events that took an arm that
\* pushes an error, and parse_log run on the other events alone.
Shadow(node, taken) ==
    IF taken \in {"orphan_time", "orphan_kind"}
    THEN /\ ignored' = Append(ignored, node)
         /\ UNCHANGED clean
    ELSE /\ clean' = ParseStep(clean, node)
         /\ UNCHANGED ignored

\* One more event is read from parse_log_nodes.
Consume(node, taken) ==
    /\ pc = "loop"
    /\ n < MaxEvents
    /\ n' = n + 1
    /\ last' = node
    /\ arm' = taken
    /\ pc' = "loop"
    /\ Shadow(node, taken)
    /\ UNCHANGED calls

\* The paths of a sequence of accepted KindHeaders for which kinds.insert
\* returned true, in that order: each path where it first appears.
FirstInserts(order) ==
    LET first == {i \in DOMAIN order : \A j \in 1..(i - 1) : order[j] # order[i]}
        F[i \in 0..Len(order)] ==
            IF i = 0 THEN <<>>
            ELSE IF i \in first THEN Append(F[i - 1], order[i]) ELSE F[i - 1]
    IN  F[Len(order)]

\* History of a step that reads a DayHeader.
HistDay == UNCHANGED hist

\* History of a step that reads a TimeHeader which emits nothing.
HistTime ==
    /\ kind_between' = (kind_between \/ since_time = "kind")
    /\ since_time' = "no_kind"
    /\ prev_end' = IF start_time # None /\ current_day # None /\ read_order # <<>>
                   THEN Some(NaiveDateTime(current_day.val, last'.time))
                   ELSE None

\* History of a step that reads a KindHeader.
HistKind ==
    /\ since_time' = IF since_time = "no_time" THEN "no_time" ELSE "kind"
    /\ UNCHANGED <<kind_between, prev_end>>

\* Mutant of DayHeaderStep: a new day drops the pending categories.
DayHeaderStepResets ==
    \E date \in Dates :
        /\ Consume(DayHeader(date), "day")
        /\ current_day' = Some(date)
        /\ HistDay
        /\ kinds' = {}
        /\ UNCHANGED <<start_time, errors, logs>>

\* LogNode::DayHeader(DayHeader { date }) => current_day = Some(date)
DayHeaderStep ==
    \E date \in Dates :
        /\ Consume(DayHeader(date), "day")
        /\ current_day' = Some(date)
        /\ HistDay
        /\ UNCHANGED <<start_time, errors, kinds, logs>>

\* LogNode::TimeHeader, start_time None, current_day Some
TimeHeaderOpen ==
    \E time \in Times :
        /\ start_time = None
        /\ current_day # None
        /\ Consume(TimeHeader(time), "open")
        /\ start_time' = Some(NaiveDateTime(current_day.val, time))
        /\ HistTime
        /\ UNCHANGED <<current_day, errors, kinds, logs, read_order, emitted>>

\* Mutant of TimeHeaderOrphan: the orphan TimeHeader opens an interval on
\* NaiveDate::default() instead of being ignored.
TimeHeaderOrphanOpens ==
    \E time \in Times :
        /\ start_time = None
        /\ current_day = None
        /\ Len(errors) < MaxErrors
        /\ Consume(TimeHeader(time), "orphan_time")
        /\ errors' = Append(errors, ErrNoDay(TimeHeader(time)))
        /\ start_time' = Some(NaiveDateTime(0, time))
        /\ HistTime
        /\ UNCHANGED <<current_day, kinds, logs, read_order, emitted>>

\* Mutant of TimeHeaderOrphan: the orphan TimeHeader is skipped without a
\* diagnostic.
TimeHeaderOrphanSilent ==
    \E time \in Times :
        /\ start_time = None
        /\ current_day = None
        /\ Len(errors) < MaxErrors
        /\ Consume(TimeHeader(time), "orphan_time")
        /\ HistTime
        /\ UNCHANGED <<current_day, start_time, errors, kinds, logs, read_order, emitted>>

\* LogNode::TimeHeader, start_time None, current_day None
TimeHeaderOrphan ==
    \E time \in Times :
        /\ start_time = None
        /\ current_day = None
        /\ Len(errors) < MaxErrors
        /\ Consume(TimeHeader(time), "orphan_time")
        /\ errors' = Append(errors, ErrNoDay(TimeHeader(time)))
        /\ HistTime
        /\ UNCHANGED <<current_day, start_time, kinds, logs, read_order, emitted>>

\* LogNode::TimeHeader, start_time Some(start_time_).
\* current_day.unwrap() panics when current_day is None.
TimeHeaderClose ==
    \E time \in Times :
        /\ start_time # None
        /\ pc = "loop"
        /\ n < MaxEvents
        /\ n' = n + 1
        /\ last' = TimeHeader(time)
        /\ arm' = "close"
        /\ Shadow(TimeHeader(time), "close")
        /\ UNCHANGED calls
        /\ IF current_day = None
           THEN /\ pc' = "panicked"
                /\ UNCHANGED <<current_day, start_time, errors, kinds, logs>>
                /\ UNCHANGED hist
                /\ UNCHANGED shadow
           ELSE LET end == NaiveDateTime(current_day.val, time) IN
                /\ pc' = "loop"
                /\ logs' = Emit(logs, start_time.val, end, kinds)
                /\ kinds' = Reset(kinds)
                /\ start_time' = NextStart(start_time, end, kinds)
                /\ HistTime
                /\ read_order' = <<>>
                /\ emitted' =
                       IF read_order # <<>>
                       THEN emitted \cup {[start |-> start_time.val, end |-> end,
                                           order |-> FirstInserts(read_order)]}
                       ELSE emitted
                /\ UNCHANGED <<current_day, errors>>

\* LogNode::KindHeader, start_time Some(_)
KindHeaderInsert ==
    \E path \in Paths :
        /\ start_time # None
        /\ Consume(KindHeader(path), "insert")
        /\ kinds' = KindsInsert(kinds, path)
        /\ HistKind
        /\ read_order' = Append(read_order, path)
        /\ UNCHANGED <<current_day, start_time, errors, logs, emitted>>

\* Mutant of KindHeaderOrphan: the path of the reported KindHeader is kept as
\* a pending category.
KindHeaderOrphanInserts ==
    \E path \in Paths :
        /\ start_time = None
        /\ Len(errors) < MaxErrors
        /\ Consume(KindHeader(path), "orphan_kind")
        /\ errors' = Append(errors, ErrNoStart(KindHeader(path)))
        /\ kinds' = KindsInsert(kinds, path)
        /\ HistKind
        /\ UNCHANGED <<current_day, start_time, logs, read_order, emitted>>

\* LogNode::KindHeader, start_time None
KindHeaderOrphan ==
    \E path \in Paths :
        /\ start_time = None
        /\ Len(errors) < MaxErrors
        /\ Consume(KindHeader(path), "orphan_kind")
        /\ errors' = Append(errors, ErrNoStart(KindHeader(path)))
        /\ HistKind
        /\ UNCHANGED <<current_day, start_time, kinds, logs, read_order, emitted>>

\* Mutant of Return: an interval still open with pending categories is
\* reported as unterminated.
ReturnReportsOpen ==
    /\ pc = "loop"
    /\ pc' = "parsed"
    /\ errors' = IF start_time # None /\ kinds # {}
                 THEN Append(errors, [msg |-> "unterminated interval", node |-> last])
                 ELSE errors
    /\ UNCHANGED n
    /\ last' = NoNode
    /\ arm' = "none"
    /\ current_day' = None
    /\ start_time' = None
    /\ kinds' = {}
    /\ UNCHANGED logs
    /\ UNCHANGED calls
    /\ prev_end' = None
    /\ UNCHANGED <<since_time, kind_between, read_order, emitted>>
    /\ clean' = Returned(clean)
    /\ UNCHANGED ignored

\* The event sequence ends: (Logs { logs }, errors). The loop variable and
\* the locals current_day, start_time and kinds are dropped, and with them
\* the end of the latest interval; the number of events read and the rest
\* of the history are kept.
Return ==
    /\ pc = "loop"
    /\ pc' = "parsed"
    /\ UNCHANGED n
    /\ last' = NoNode
    /\ arm' = "none"
    /\ current_day' = None
    /\ start_time' = None
    /\ kinds' = {}
    /\ UNCHANGED <<errors, logs>>
    /\ UNCHANGED calls
    /\ prev_end' = None
    /\ UNCHANGED <<since_time, kind_between, read_order, emitted>>
    /\ clean' = Returned(clean)
    /\ UNCHANGED ignored

\* ---------------------------------------------------------------- BTreeMap
\* BTreeMap<NaiveDate, Duration> as the sequence of its entries <<key, value>>
\* in the order iter() yields them.

\* BTreeMap::get
BTreeGet(m, k) ==
    IF \E i \in DOMAIN m : m[i][1] = k
    THEN Some(m[CHOOSE i \in DOMAIN m : m[i][1] = k][2])
    ELSE None

\* Mutant of BTreeInsert: the map keeps insertion order (a new key goes last).
BTreeInsertLast(m, k, v) ==
    IF \E i \in DOMAIN m : m[i][1] = k
    THEN [i \in DOMAIN m |-> IF m[i][1] = k THEN <<k, v>> ELSE m[i]]
    ELSE Append(m, <<k, v>>)

\* BTreeMap::insert: the entry of key k is replaced, or added at its place
\* in key order.
BTreeInsert(m, k, v) ==
    SelectSeq(m, LAMBDA e : e[1] < k) \o <<<<k, v>>>> \o SelectSeq(m, LAMBDA e : e[1] > k)

\* Option::unwrap_or
UnwrapOr(o, default) == IF o = None THEN default ELSE o.val

\* ------------------------------------------------------------------- Logs

\* self.logs.iter(): every stored copy once, in an order the hash set decides.
Iter(ls) ==
    LET S == BagToSet(ls)
        N == BagCardinality(ls)
    IN  {it \in [1..N -> S] :
            \A x \in S : Cardinality({i \in 1..N : it[i] = x}) = CopiesIn(x, ls)}

\* The closure of the for_each of total_by_day, applied along an iteration.
RECURSIVE ForEachLog(_, _)
ForEachLog(it, m) ==
    IF it = <<>>
    THEN m
    ELSE LET l == Head(it)
             day == l.start.date
             previous_duration == UnwrapOr(BTreeGet(m, day), 0)
         IN  ForEachLog(Tail(it),
                        BTreeInsert(m, day, previous_duration + Minus(l.end, l.start)))

\* Logs::total_by_day, for the iteration `it` of self.logs
TotalByDay(it) == ForEachLog(it, <<>>)

\* Mutant of Scan: the target is not accumulated (each day is compared with
\* one per-day target).
RECURSIVE ScanFlatTarget(_, _, _, _)
ScanFlatTarget(entries, running_total, running_target, tgt) ==
    IF entries = <<>>
    THEN <<>>
    ELSE LET date == Head(entries)[1]
             total == Head(entries)[2]
             new_total == running_total + total
         IN  <<<<date, total, new_total - tgt>>>>
                 \o ScanFlatTarget(Tail(entries), new_total, running_target, tgt)

\* Mutant of Scan: the target grows by one per-day amount for every calendar
\* day from the first date on, with or without intervals.
RECURSIVE ScanCalendarTarget(_, _, _, _)
ScanCalendarTarget(entries, running_total, running_target, tgt) ==
    IF entries = <<>>
    THEN <<>>
    ELSE LET date == Head(entries)[1]
             total == Head(entries)[2]
             new_total == running_total + total
             new_target == running_target + tgt
             skipped == IF Tail(entries) = <<>> THEN 0
                        ELSE Head(Tail(entries))[1] - date - 1
         IN  <<<<date, total, new_total - new_target>>>>
                 \o ScanCalendarTarget(Tail(entries), new_total,
                                       new_target + skipped * tgt, tgt)

\* The scan of accumulated_vs_target over the entries of total_by_day.
RECURSIVE Scan(_, _, _, _)
Scan(entries, running_total, running_target, tgt) ==
    IF entries = <<>>
    THEN <<>>
    ELSE LET date == Head(entries)[1]
             total == Head(entries)[2]
             new_total == running_total + total
             new_target == running_target + tgt
         IN  <<<<date, total, new_total - new_target>>>>
                 \o Scan(Tail(entries), new_total, new_target, tgt)

\* Logs::accumulated_vs_target, for the iteration `it` of self.logs
AccumulatedVsTarget(it, tgt) == Scan(TotalByDay(it), 0, 0, tgt)

\* A caller calls logs.total_by_day() on the returned Logs.
CallTotalByDay ==
    /\ pc = "parsed"
    /\ \E it \in Iter(logs) : days_to_total' = Some(TotalByDay(it))
    /\ pc' = "totalled"
    /\ UNCHANGED <<n, last, arm, current_day, start_time, errors, kinds, logs>>
    /\ UNCHANGED <<target, vs_target, printed, plain_text, display>>
    /\ UNCHANGED hist
    /\ UNCHANGED shadow

\* A caller calls logs.accumulated_vs_target(target) on the returned Logs.
CallAccumulatedVsTarget ==
    /\ pc = "totalled"
    /\ \E tgt \in Targets, it \in Iter(logs) :
           /\ target' = Some(tgt)
           /\ vs_target' = Some(AccumulatedVsTarget(it, tgt))
    /\ pc' = "done"
    /\ UNCHANGED <<n, last, arm, current_day, start_time, errors, kinds, logs>>
    /\ UNCHANGED <<days_to_total, printed, plain_text, display>>
    /\ UNCHANGED hist
    /\ UNCHANGED shadow

\* ---------------------------------------------------------------- strings
\* A string is the sequence of its pieces of text: the characters " " and
\* "/" one by one, and words (runs of other characters) as one piece each.

\* The byte a piece starts with: the order of str::cmp between pieces.
Byte(c) ==
    CASE c = " " -> 32
      [] c = "!" -> 33
      [] c = "/" -> 47
      [] c = "Coding" -> 67
      [] c = "MyOrg" -> 77
      [] c = "Work" -> 87
      [] c = "a" -> 97
      [] c = "b" -> 98

\* a < b for strings (Ord for str: lexicographic).
RECURSIVE StrLess(_, _)
StrLess(a, b) ==
    IF b = <<>> THEN FALSE
    ELSE IF a = <<>> THEN TRUE
    ELSE IF Head(a) = Head(b) THEN StrLess(Tail(a), Tail(b))
    ELSE Byte(Head(a)) < Byte(Head(b))

\* The string of a path segment of the events of the loop (one word).
Word(w) == <<w>>

\* The separators of the Display of Kinds.
SepPath == <<" ", "/", " ">>

\* Mutant of SepKinds: the paths are joined by the separator of the segments.
SepKindsAsPath == <<" ", "/", " ">>

SepKinds == <<" ", "/", "/", " ">>

\* s.starts_with(sub) at position i
MatchesAt(s, sub, i) ==
    /\ i + Len(sub) - 1 <= Len(s)
    /\ SubSeq(s, i, i + Len(sub) - 1) = sub

\* str::split(sep): the pieces between the matches of sep, found from the
\* left and not overlapping; a string without a match is one piece.
RECURSIVE Split(_, _)
Split(s, sep) ==
    IF \E i \in 1..Len(s) : MatchesAt(s, sep, i)
    THEN LET i == CHOOSE k \in 1..Len(s) :
                      MatchesAt(s, sep, k) /\ \A q \in 1..(k - 1) : ~MatchesAt(s, sep, q)
         IN  <<SubSeq(s, 1, i - 1)>> \o Split(SubSeq(s, i + Len(sep), Len(s)), sep)
    ELSE <<s>>

\* The path of to_kind_header for the text of a depth-3 heading:
\* value.split(" / ").collect()
ToKindHeaderPath(value) == Split(value, <<" ", "/", " ">>)

\* [String]::join(sep)
RECURSIVE Join(_, _)
Join(strs, sep) ==
    IF strs = <<>> THEN <<>>
    ELSE IF Len(strs) = 1 THEN strs[1]
    ELSE strs[1] \o sep \o Join(Tail(strs), sep)

\* Vec<String>::sort, by insertion (equal strings are the same value).
RECURSIVE SortStrings(_)
SortStrings(strs) ==
    IF strs = <<>> THEN <<>>
    ELSE LET rest == SortStrings(Tail(strs))
             x == Head(strs)
         IN  SelectSeq(rest, LAMBDA y : StrLess(y, x)) \o <<x>>
                 \o SelectSeq(rest, LAMBDA y : ~StrLess(y, x))

\* self.paths.iter() of a frozen set: its elements in some order (the sort
\* that follows makes the order immaterial).
RECURSIVE SetToSeq(_)
SetToSeq(S) ==
    IF S = {} THEN <<>>
    ELSE LET x == CHOOSE y \in S : TRUE IN <<x>> \o SetToSeq(S \ {x})

\* impl Display for Kinds, for paths whose segments are strings.
KindsDisplay(paths) ==
    LET it == SetToSeq(paths)
        joined == [i \in DOMAIN it |-> Join(it[i], SepPath)]
    IN  Join(SortStrings(joined), SepKinds)

\* The paths of the events as paths of strings.
Strings(path) == [i \in DOMAIN path |-> Word(path[i])]

\* impl Display for Log: "{start}-{end.time()} {kinds}"
LogDisplay(l) ==
    [start |-> l.start, end_time |-> l.end.time,
     kinds |-> KindsDisplay({Strings(p) : p \in l.kinds})]

\* NaiveDateTime <= NaiveDateTime
DateTimeLeq(a, b) == a.date < b.date \/ (a.date = b.date /\ a.time <= b.time)

\* logs.sort_by_key(|l| l.start): a stable sort, the intervals of equal
\* start keep the order they had.
RECURSIVE SortByStart(_)
SortByStart(ls) ==
    IF ls = <<>> THEN <<>>
    ELSE LET rest == SortByStart(Tail(ls))
             x == Head(ls)
         IN  SelectSeq(rest, LAMBDA y : ~DateTimeLeq(x.start, y.start)) \o <<x>>
                 \o SelectSeq(rest, LAMBDA y : DateTimeLeq(x.start, y.start))

\* Logs::sorted_logs, for the iteration `it` of self.logs
SortedLogs(it) == SortByStart(it)

\* Logs::to_plain_text, for the iteration `it` of self.logs: its lines.
ToPlainText(it) ==
    LET sorted == SortedLogs(it) IN [i \in DOMAIN sorted |-> LogDisplay(sorted[i])]

\* A caller calls logs.to_plain_text() on the returned Logs.
CallToPlainText ==
    /\ pc = "parsed"
    /\ \E it \in Iter(logs) : plain_text' = Some(ToPlainText(it))
    /\ pc' = "text"
    /\ UNCHANGED <<n, last, arm, current_day, start_time, errors, kinds, logs>>
    /\ UNCHANGED <<days_to_total, target, vs_target, printed, display>>
    /\ UNCHANGED hist
    /\ UNCHANGED shadow

\* ------------------------------------------------------------------- main

\* i64 division and remainder of Rust: the quotient is truncated toward zero.
TruncDiv(a, b) == IF a >= 0 THEN a \div b ELSE -((-a) \div b)

TruncRem(a, b) == a - b * TruncDiv(a, b)

\* The line println!("day: {} {}h {}m, delta minutes {}", ..) prints for a row.
DayLine(row) ==
    [date |-> row[1], h |-> TruncDiv(row[2], 60), m |-> TruncRem(row[2], 60),
     delta |-> row[3]]

\* total_by_day_vs_target.iter().rev()
Rev(rows) == [k \in 1..Len(rows) |-> rows[Len(rows) + 1 - k]]

\* Mutant of ReportLoop: the break does not test i != 0.
RECURSIVE ReportLoopAnyZero(_, _)
ReportLoopAnyZero(rev, i) ==
    IF i >= Len(rev)
    THEN <<>>
    ELSE LET row == rev[i + 1] IN
         IF row[3] = 0
         THEN <<DayLine(row)>>
         ELSE <<DayLine(row)>> \o ReportLoopAnyZero(rev, i + 1)

\* The for loop of main over the reversed, enumerated rows, from index i
\* (0-based, as enumerate counts): the lines it prints until it breaks.
RECURSIVE ReportLoop(_, _)
ReportLoop(rev, i) ==
    IF i >= Len(rev)
    THEN <<>>
    ELSE LET row == rev[i + 1] IN
         IF row[3] = 0 /\ i # 0
         THEN <<DayLine(row)>>
         ELSE <<DayLine(row)>> \o ReportLoop(rev, i + 1)

\* main prints the balance from the rows (date, total, vs_target).
Report ==
    /\ pc = "done"
    /\ printed' = ReportLoop(Rev(vs_target.val), 0)
    /\ pc' = "reported"
    /\ UNCHANGED <<n, last, arm, current_day, start_time, errors, kinds, logs>>
    /\ UNCHANGED <<days_to_total, target, vs_target, plain_text, display>>
    /\ UNCHANGED hist
    /\ UNCHANGED shadow

Next ==
    \/ DayHeaderStep
    \/ TimeHeaderOpen
    \/ TimeHeaderOrphan
    \/ TimeHeaderClose
    \/ KindHeaderInsert
    \/ KindHeaderOrphan
    \/ Return
    \/ CallTotalByDay
    \/ CallAccumulatedVsTarget
    \/ Report
    \/ CallToPlainText

Spec == Init /\ [][Next]_vars

\* ----------------------------------------------------- the text of the kinds
\* Display for Kinds on the paths to_kind_header makes of heading texts.

\* The pieces of the heading texts.
TextChars == {"a", " ", "/"}

\* The texts of depth-3 headings: not empty, no space at either end (the
\* Markdown parser strips the heading's content).
HeadingTexts ==
    {t \in UNION {[1..len -> TextChars] : len \in 1..MaxTextLen} :
        t[1] # " " /\ t[Len(t)] # " "}

\* One or two KindHeaders were read into the pending categories.
InitKinds ==
    /\ pc = "kinds"
    /\ \E t1, t2 \in HeadingTexts :
           kinds = KindsInsert(KindsInsert({}, ToKindHeaderPath(t1)), ToKindHeaderPath(t2))
    /\ n = 0
    /\ last = NoNode
    /\ arm = "none"
    /\ current_day = None
    /\ start_time = None
    /\ errors = <<>>
    /\ logs = EmptyBag
    /\ days_to_total = None
    /\ target = None
    /\ vs_target = None
    /\ printed = <<>>
    /\ plain_text = None
    /\ display = None
    /\ since_time = "no_time"
    /\ kind_between = FALSE
    /\ read_order = <<>>
    /\ emitted = {}
    /\ prev_end = None
    /\ ignored = <<>>
    /\ clean = CleanInit

\* format!("{}", Kinds::new(kinds))
DisplayKinds ==
    /\ pc = "kinds"
    /\ display' = Some(KindsDisplay(KindsNew(kinds)))
    /\ pc' = "displayed"
    /\ UNCHANGED <<n, last, arm, current_day, start_time, errors, kinds, logs>>
    /\ UNCHANGED <<days_to_total, target, vs_target, printed, plain_text>>
    /\ UNCHANGED hist
    /\ UNCHANGED shadow

SpecKinds == InitKinds /\ [][DisplayKinds]_vars

\* ------------------------------------------------------------------ claims

\* C1: as long as no KindHeader was read between two consecutive
\* TimeHeaders, no interval was emitted, whatever DayHeaders and orphan
\* events were read.
C1_NoEmitWithoutCategory == ~kind_between => logs = EmptyBag

\* C1 witness: a TimeHeader closed an open interval, after orphan events,
\* and no KindHeader was ever read between two TimeHeaders.
C1_Witness ==
    /\ ~kind_between
    /\ arm = "close"
    /\ errors # <<>>
    /\ n >= 5
    /\ logs = EmptyBag

\* C2: parse_log never panics: current_day.unwrap() is never reached with
\* current_day None, because an open interval implies a current day; and
\* the empty event sequence returns no interval and no error.
C2_NeverPanics ==
    /\ pc # "panicked"
    /\ start_time # None => current_day # None
    /\ (pc = "parsed" /\ n = 0) => (logs = EmptyBag /\ errors = <<>>)

\* C2 witness: a closing TimeHeader combined current_day with its time in a
\* run that also read orphan events and emitted an interval.
C2_Witness ==
    /\ arm = "close"
    /\ pc = "loop"
    /\ errors # <<>>
    /\ logs # EmptyBag
    /\ start_time = Some(NaiveDateTime(current_day.val, last.time))

\* C3: every interval of the completed set has a non-empty category set.
C3_EmittedHaveKinds == \A l \in LogSet(logs) : l.kinds # {}

\* C3 witness: an interval with equal start and end was emitted, with its
\* categories.
C3_Witness == \E l \in LogSet(logs) : l.start = l.end /\ l.kinds # {}

\* C4 (as claimed): every emitted interval ends on the calendar date it
\* starts on.
C4_EndOnStartDate == \A l \in LogSet(logs) : l.end.date = l.start.date

\* C5: a TimeHeader read with no interval open and no current day appends
\* exactly one error and changes nothing else; so a KindHeader read after
\* orphan TimeHeaders only is reported too, and nothing is emitted.
C5_OrphanTimeIgnored ==
    /\ [][(/\ pc = "loop"
           /\ n' = n + 1
           /\ last'.type = "TimeHeader"
           /\ start_time = None
           /\ current_day = None)
          => (/\ errors' = Append(errors, ErrNoDay(last'))
              /\ current_day' = current_day
              /\ start_time' = start_time
              /\ kinds' = kinds
              /\ logs' = logs
              /\ pc' = "loop")]_vars
    /\ []((/\ n >= 2
           /\ last.type = "KindHeader"
           /\ Cardinality({i \in DOMAIN errors : errors[i].node.type = "TimeHeader"}) = n - 1)
          => (/\ Len(errors) = n
              /\ errors[n] = ErrNoStart(last)
              /\ start_time = None
              /\ logs = EmptyBag))

\* C5 witness: [TimeHeader, KindHeader] was read: two errors, no interval.
C5_Witness ==
    /\ n = 2
    /\ Len(errors) = 2
    /\ errors[1].node.type = "TimeHeader"
    /\ errors[2] = ErrNoStart(errors[2].node)
    /\ errors[2].node.type = "KindHeader"
    /\ pc = "parsed"
    /\ logs = EmptyBag

\* The elements of a sequence.
Range(seq) == {seq[i] : i \in DOMAIN seq}

\* The sum of end - start over a set of intervals.
RECURSIVE SumDurations(_)
SumDurations(S) ==
    IF S = {}
    THEN 0
    ELSE LET l == CHOOSE x \in S : TRUE
         IN  Minus(l.end, l.start) + SumDurations(S \ {l})

\* The sum of the totals of the first N entries of a by-day map.
RECURSIVE SumFirst(_, _)
SumFirst(m, N) == IF N = 0 THEN 0 ELSE SumFirst(m, N - 1) + m[N][2]

\* C6: a KindHeader read with no interval open appends exactly one error
\* and changes nothing else; read with an interval open it adds its path to
\* the pending categories (a set) and records no error. A lone KindHeader
\* gives one error and no interval.
C6_OrphanKindIgnored ==
    /\ [][(/\ pc = "loop"
           /\ n' = n + 1
           /\ last'.type = "KindHeader")
          => IF start_time = None
             THEN /\ errors' = Append(errors, ErrNoStart(last'))
                  /\ kinds' = kinds
                  /\ current_day' = current_day
                  /\ start_time' = start_time
                  /\ logs' = logs
             ELSE /\ kinds' = kinds \cup {last'.path}
                  /\ errors' = errors]_vars
    /\ []((n = 1 /\ last.type = "KindHeader")
          => (Len(errors) = 1 /\ logs = EmptyBag))

\* C6 witness: after an orphan KindHeader was reported, a path was accepted
\* twice and once more a different one: the pending set holds two paths.
C6_Witness ==
    /\ arm = "insert"
    /\ \E i \in DOMAIN errors : errors[i].node.type = "KindHeader"
    /\ Len(read_order) = 3
    /\ read_order[1] = read_order[2]
    /\ read_order[3] # read_order[1]
    /\ Cardinality(kinds) = 2

\* C7: a KindHeader read while an interval is open changes neither the
\* interval set nor the error list, and neither does the end of the event
\* sequence: the interval left open is not emitted and not reported.
C7_TrailingOpenDiscarded ==
    /\ [][(/\ pc = "loop"
           /\ n' = n + 1
           /\ last'.type = "KindHeader"
           /\ start_time # None)
          => (logs' = logs /\ errors' = errors)]_vars
    /\ [][(pc = "loop" /\ pc' # "loop" /\ pc' # "panicked")
          => (logs' = logs /\ errors' = errors)]_vars

\* C7 witness: parse_log returned with an interval open whose pending
\* categories are in no emitted interval, after it emitted another one.
C7_Witness ==
    /\ pc = "parsed"
    /\ read_order # <<>>
    /\ logs # EmptyBag
    /\ \A l \in LogSet(logs) : l.kinds \cap Range(read_order) = {}

\* C8: the interval set holds one element per emitted value (start, end,
\* set of paths), whatever the order the paths were read in and however
\* often the value was emitted; total_by_day counts each once.
C8_DedupByValue ==
    /\ \A l \in LogSet(logs) : CopiesIn(l, logs) = 1
    /\ LogSet(logs) = {Log(e.start, e.end, Range(e.order)) : e \in emitted}
    /\ days_to_total # None =>
           \A i \in DOMAIN days_to_total.val :
               days_to_total.val[i][2] =
                   SumDurations({l \in {Log(e.start, e.end, Range(e.order)) : e \in emitted} :
                                    l.start.date = days_to_total.val[i][1]})

\* C8 witness: the same interval was emitted twice, its paths read in two
\* different orders; the set has one element and total_by_day was called.
C8_Witness ==
    /\ \E e1, e2 \in emitted :
           /\ e1.order # e2.order
           /\ e1.start = e2.start
           /\ e1.end = e2.end
           /\ Range(e1.order) = Range(e2.order)
           /\ Cardinality(Range(e1.order)) = 2
    /\ BagCardinality(logs) = 1
    /\ days_to_total # None
    /\ Len(days_to_total.val) = 1

\* C9: total_by_day has a key for exactly the dates on which an interval
\* starts, its value is the sum of end - start over the intervals starting
\* on that date, and its entries are in ascending date order.
C9_TotalByDay ==
    days_to_total # None =>
        LET m == days_to_total.val IN
        /\ {m[i][1] : i \in DOMAIN m} = {l.start.date : l \in LogSet(logs)}
        /\ \A i \in DOMAIN m :
               m[i][2] = SumDurations({l \in LogSet(logs) : l.start.date = m[i][1]})
        /\ \A i, j \in DOMAIN m : i < j => m[i][1] < m[j][1]

\* C9 witness: [Day(2023-12-03), Time(09:00), Kind, Time(13:00)] gives the
\* single entry 2023-12-03 -> 4h.
C9_Witness ==
    /\ n = 4
    /\ errors = <<>>
    /\ LogSet(logs) = {Log(NaiveDateTime(1, 540), NaiveDateTime(1, 780),
                           {<<"Work", "MyOrg">>})}
    /\ days_to_total = Some(<< <<1, 240>> >>)

\* C10: accumulated_vs_target has one row per entry of total_by_day, in
\* the same (ascending date) order, with that day's total, and the delta of
\* row N is the sum of the first N totals minus N times the target.
C10_AccumulatedVsTarget ==
    vs_target # None =>
        LET rows == vs_target.val
            m == days_to_total.val
        IN
        /\ Len(rows) = Len(m)
        /\ \A N \in DOMAIN rows :
               /\ rows[N][1] = m[N][1]
               /\ rows[N][2] = m[N][2]
               /\ rows[N][3] = SumFirst(m, N) - N * target.val

\* C10 witness: two days of 8h each against a target of 8h: deltas 0 and 0.
C10_Witness ==
    /\ target = Some(480)
    /\ vs_target = Some(<< <<1, 480, 0>>, <<3, 480, 0>> >>)

\* The number of rows the report loop prints when it stops at the first
\* row of rev, from position k on (1-based), whose delta is zero.
FirstZeroFrom(rev, k) ==
    IF \E j \in k..Len(rev) : rev[j][3] = 0
    THEN CHOOSE j \in k..Len(rev) :
             rev[j][3] = 0 /\ \A q \in k..(j - 1) : rev[q][3] # 0
    ELSE Len(rev)

C12_SortedDeterministic ==
    plain_text # None =>
        /\ \A i, j \in DOMAIN plain_text.val :
               i < j => DateTimeLeq(plain_text.val[i].start, plain_text.val[j].start)
        /\ \A it \in Iter(logs) :
               /\ ToPlainText(it) = plain_text.val
               /\ SortedLogs(it) = SortedLogs(CHOOSE other \in Iter(logs) : TRUE)

\* The paths read back from a displayed category text: split on " // ",
\* each piece split on " / ".
Reparse(text) ==
    {Split(piece, <<" ", "/", " ">>) : piece \in Range(Split(text, <<" ", "/", "/", " ">>))}

\* s contains sub.
Contains(s, sub) == \E i \in 1..Len(s) : MatchesAt(s, sub, i)

\* The text of a path has no " // " in it and does not end with " //".
Unambiguous(path) ==
    ~Contains(Join(path, <<" ", "/", " ">>) \o <<" ">>, <<" ", "/", "/", " ">>)

\* C13 (as claimed): the displayed category text, read back, is the set of
\* paths it was written from.
C13_RoundTrip == display # None => Reparse(display.val) = kinds

\* C13 (amended): the same, for paths whose text neither contains " // "
\* nor ends with " //".
C13_RoundTripUnambiguous ==
    (display # None /\ \A path \in kinds : Unambiguous(path))
        => Reparse(display.val) = kinds

\* C13 witness: two paths, one of two segments one of which holds a "/",
\* were displayed and read back.
C13_Witness ==
    /\ display # None
    /\ kinds = {<< <<"a">>, <<"/", "a">> >>, << <<"/", "/", "a">> >>}
    /\ Reparse(display.val) = kinds

\* C14: a TimeHeader that closes an open interval with pending categories
\* emits exactly the interval from the start held before the event to
\* current_day at the header's time, with the paths of the KindHeaders
\* accepted since the previous accepted TimeHeader, and leaves no category
\* pending.
C14_CloseEmitsExactly ==
    [][(/\ pc = "loop"
        /\ n' = n + 1
        /\ last'.type = "TimeHeader"
        /\ start_time # None
        /\ kinds # {})
       => (/\ LogSet(logs') =
                  LogSet(logs) \cup {Log(start_time.val,
                                         NaiveDateTime(current_day.val, last'.time),
                                         Range(read_order))}
           /\ kinds' = {})]_vars

\* C14 witness: two consecutive intervals were emitted, the second with a
\* category the first does not have and without the category of the first.
C14_Witness ==
    /\ arm = "close"
    /\ kinds = {}
    /\ LogSet(logs) =
           {Log(NaiveDateTime(1, 540), NaiveDateTime(1, 780), {<<"Coding">>}),
            Log(NaiveDateTime(1, 780), NaiveDateTime(1, 1020), {<<"Work", "MyOrg">>})}

\* C15: a TimeHeader read while an interval is open sets the start to the
\* end it computed, emitting or not; no other event changes the start; so
\* the start is always the timestamp of the latest accepted TimeHeader, an
\* emitted interval starts there, and an interval emitted right after
\* another starts at the end of that one.
C15_TimelineChains ==
    /\ [][(/\ pc = "loop"
           /\ n' = n + 1
           /\ last'.type = "TimeHeader"
           /\ start_time # None)
          => start_time' = Some(NaiveDateTime(current_day.val, last'.time))]_vars
    /\ [][(/\ pc = "loop"
           /\ n' = n + 1
           /\ last'.type # "TimeHeader")
          => start_time' = start_time]_vars
    /\ [][(/\ pc = "loop"
           /\ n' = n + 1
           /\ last'.type = "TimeHeader"
           /\ start_time # None
           /\ kinds # {})
          => \E l \in LogSet(logs') :
                 /\ l.start = start_time.val
                 /\ l.end = NaiveDateTime(current_day.val, last'.time)
                 /\ prev_end # None => l.start = prev_end.val]_vars

\* C15 witness: two intervals were emitted one after the other, the second
\* starting where the first ends; the start is now the end of the second.
C15_Witness ==
    /\ arm = "close"
    /\ start_time = Some(NaiveDateTime(1, 540))
    /\ prev_end = Some(NaiveDateTime(1, 540))
    /\ LogSet(logs) =
           {Log(NaiveDateTime(1, 780), NaiveDateTime(1, 1020), {<<"Coding">>}),
            Log(NaiveDateTime(1, 1020), NaiveDateTime(1, 540), {<<"Coding">>})}

\* C16: a DayHeader sets current_day to its date and changes nothing else:
\* the start, the pending categories, the interval set and the error list
\* are as before.
C16_DayHeaderOnlySetsDay ==
    [][(/\ pc = "loop"
        /\ n' = n + 1
        /\ last'.type = "DayHeader")
       => (/\ current_day' = Some(last'.date)
           /\ start_time' = start_time
           /\ kinds' = kinds
           /\ logs' = logs
           /\ errors' = errors)]_vars

\* C16 witness: a DayHeader of another date was read while an interval was
\* open with a pending category, after an interval was emitted and an error
\* recorded.
C16_Witness ==
    /\ arm = "day"
    /\ start_time # None
    /\ start_time.val.date # current_day.val
    /\ kinds # {}
    /\ logs # EmptyBag
    /\ errors # <<>>

\* C17: once the start is set no event unsets it and no event records an
\* error; a TimeHeader read with a current day always leaves the start set;
\* so every error comes from an event read before the first accepted
\* TimeHeader.
C17_StartNeverUnset ==
    /\ [][(/\ pc = "loop"
           /\ n' = n + 1
           /\ start_time # None)
          => (start_time' # None /\ errors' = errors)]_vars
    /\ [][(/\ pc = "loop"
           /\ n' = n + 1
           /\ last'.type = "TimeHeader"
           /\ current_day # None)
          => start_time' # None]_vars
    /\ []((pc = "loop" /\ start_time = None) => logs = EmptyBag)

\* C17 witness: two orphan events were reported, then an interval was
\* opened, an interval emitted, and events of the three kinds read since:
\* the error list still has the two entries.
C17_Witness ==
    /\ pc = "loop"
    /\ n = MaxEvents
    /\ Len(errors) = 2
    /\ start_time # None
    /\ logs # EmptyBag
    /\ arm = "insert"
    /\ start_time.val.date # current_day.val

\* The error parse_log pushes for an ignored event.
ErrorOf(node) == IF node.type = "TimeHeader" THEN ErrNoDay(node) ELSE ErrNoStart(node)

\* C18: the ignored events are the TimeHeaders read with no day and no open
\* interval and the KindHeaders read with no open interval; the error list
\* has one entry for each, in event order; and parse_log on the events left
\* when they are deleted gives the same interval set and no error.
C18_ErrorsDoNotInfluence ==
    /\ [][(pc = "loop" /\ n' = n + 1)
          => ignored' =
                 IF \/ (last'.type = "TimeHeader" /\ current_day = None /\ start_time = None)
                    \/ (last'.type = "KindHeader" /\ start_time = None)
                 THEN Append(ignored, last')
                 ELSE ignored]_vars
    /\ [](errors = [i \in DOMAIN ignored |-> ErrorOf(ignored[i])])
    /\ [](/\ clean.logs = logs
          /\ clean.errors = <<>>
          /\ ~clean.panicked)

\* C18 witness: parse_log returned two errors, for an orphan KindHeader and
\* an orphan TimeHeader in that order, and an interval emitted after them.
C18_Witness ==
    /\ pc = "parsed"
    /\ Len(ignored) = 2
    /\ ignored[1].type = "KindHeader"
    /\ ignored[2].type = "TimeHeader"
    /\ errors = <<ErrNoStart(ignored[1]), ErrNoDay(ignored[2])>>
    /\ logs # EmptyBag
    /\ clean.logs = logs

\* C19: a closing TimeHeader with pending categories emits its interval
\* whether the end is later than, equal to or earlier than the start, and
\* total_by_day adds end - start with its sign: the totals of the days add
\* up to the signed sum over the intervals.
C19_SignedDurations ==
    /\ [][(/\ pc = "loop"
           /\ n' = n + 1
           /\ last'.type = "TimeHeader"
           /\ start_time # None
           /\ kinds # {})
          => \E l \in LogSet(logs') :
                 /\ l.kinds = kinds
                 /\ l.start = start_time.val
                 /\ Minus(l.end, l.start) =
                        (current_day.val - start_time.val.date) * 1440
                            + (last'.time - start_time.val.time)]_vars
    /\ [](days_to_total # None
          => SumFirst(days_to_total.val, Len(days_to_total.val))
                 = SumDurations(LogSet(logs)))

\* C19 witness: [Day, Time(17:00), Kind, Time(09:00)] emitted an interval of
\* -8h and total_by_day gives that day -8h.
C19_Witness ==
    /\ n = 4
    /\ LogSet(logs) = {Log(NaiveDateTime(1, 1020), NaiveDateTime(1, 540), {<<"Coding">>})}
    /\ days_to_total = Some(<< <<1, -480>> >>)

\* C20: accumulated_vs_target has a row for exactly the dates on which an
\* interval starts, and from one row to the next the delta grows by that
\* day's total minus one per-day target, however many calendar days lie
\* between the two dates.
C20_TargetPerLoggedDay ==
    vs_target # None =>
        LET rows == vs_target.val IN
        /\ {rows[N][1] : N \in DOMAIN rows} = {l.start.date : l \in LogSet(logs)}
        /\ \A N \in DOMAIN rows :
               rows[N][3] - (IF N = 1 THEN 0 ELSE rows[N - 1][3])
                   = rows[N][2] - target.val

\* C20 witness: 4h on 2023-12-03 and 8h on 2023-12-05 against 4h a day,
\* nothing on 2023-12-04: the deltas are 0 and +4h.
C20_Witness ==
    /\ target = Some(240)
    /\ vs_target = Some(<< <<1, 240, 0>>, <<3, 480, 240>> >>)

====
